---------------------------- MODULE Spec2Model ----------------------------
(***************************************************************************)
(* Model of src/main.rs: the two waitlist handlers of the actix-web demo,  *)
(* vulnerable_waitlist and secure_waitlist, the ApiError response          *)
(* conversion, and the AppState configuration built by main.               *)
(*                                                                         *)
(* Strings are sequences of one-character strings, so formatting,          *)
(* comparison and "contains" are computed on the text itself.  A HeaderValue *)
(* is a sequence of bytes: visible ASCII bytes are written as their        *)
(* character, and ObsText stands for one byte in 0x80..0xFF.               *)
(* Option<T> is a sequence of length 0 (None) or 1 (Some(v)).              *)
(***************************************************************************)
EXTENDS Integers, Sequences, FiniteSets, TLC

(***************************************************************************)
(* Bounds of the explored inputs.                                          *)
(***************************************************************************)
\* requests in flight together in Spec
MaxRequests == 2
\* longest enumerated Host header value in SpecRequest
MaxHostLen == 2
\* longest enumerated email in SpecRequest
MaxEmailLen == 1

(***************************************************************************)
(* Text literals of src/main.rs.                                           *)
(***************************************************************************)
\* "88665751-288d-4175-852f-6519d79fdf1f"
ApiKey ==
  <<"8","8","6","6","5","7","5","1","-","2","8","8","d","-","4","1","7","5","-","8","5",
    "2","f","-","6","5","1","9","d","7","9","f","d","f","1","f">>

\* "my-app.com:8080"
MyApp ==
  <<"m","y","-","a","p","p",".","c","o","m",":","8","0","8","0">>

\* "prod.my-app.com:8080"
ProdMyApp ==
  <<"p","r","o","d",".","m","y","-","a","p","p",".","c","o","m",":","8","0","8","0">>

\* "127.0.0.1:8080"
Loopback ==
  <<"1","2","7",".","0",".","0",".","1",":","8","0","8","0">>

\* "https:"
UrlScheme ==
  <<"h","t","t","p","s",":">>

\* "//"
UrlSlashes ==
  <<"/","/">>

\* "/v1/waitlist?api_key="
UrlPathAndKey ==
  <<"/","v","1","/","w","a","i","t","l","i","s","t","?","a","p","i","_","k","e","y","=">>

\* "&email="
UrlEmail ==
  <<"&","e","m","a","i","l","=">>

\* "Vulnerable handler attempting to use URL: "
VulnerableInfoText ==
  <<"V","u","l","n","e","r","a","b","l","e"," ","h","a","n","d","l","e","r"," ","a","t",
    "t","e","m","p","t","i","n","g"," ","t","o"," ","u","s","e"," ","U","R","L",":"," ">>

\* "Thank you for your interest. You have been added to the waitlist."
VulnerableOkBody ==
  <<"T","h","a","n","k"," ","y","o","u"," ","f","o","r"," ","y","o","u","r"," ","i","n",
    "t","e","r","e","s","t","."," ","Y","o","u"," ","h","a","v","e"," ","b","e","e","n",
    " ","a","d","d","e","d"," ","t","o"," ","t","h","e"," ","w","a","i","t","l","i","s",
    "t",".">>

\* "Failed to construct backend request. URL: '"
ErrorMessageHead ==
  <<"F","a","i","l","e","d"," ","t","o"," ","c","o","n","s","t","r","u","c","t"," ","b",
    "a","c","k","e","n","d"," ","r","e","q","u","e","s","t","."," ","U","R","L",":"," ",
    "'">>

\* "', Error: "
ErrorMessageMid ==
  <<"'",","," ","E","r","r","o","r",":"," ">>

\* "Rejected request with invalid or missing host header: "
WarnText ==
  <<"R","e","j","e","c","t","e","d"," ","r","e","q","u","e","s","t"," ","w","i","t","h",
    " ","i","n","v","a","l","i","d"," ","o","r"," ","m","i","s","s","i","n","g"," ","h",
    "o","s","t"," ","h","e","a","d","e","r",":"," ">>

\* "None"
DebugNone ==
  <<"N","o","n","e">>

\* "Some("
DebugSomeOpen ==
  <<"S","o","m","e","(">>

\* ")"
DebugSomeClose ==
  <<")">>

\* "Invalid 'Host' header provided."
RejectBody ==
  <<"I","n","v","a","l","i","d"," ","'","H","o","s","t","'"," ","h","e","a","d","e","r",
    " ","p","r","o","v","i","d","e","d",".">>

\* "Secure handler attempting to use URL: "
SecureInfoText ==
  <<"S","e","c","u","r","e"," ","h","a","n","d","l","e","r"," ","a","t","t","e","m","p",
    "t","i","n","g"," ","t","o"," ","u","s","e"," ","U","R","L",":"," ">>

\* "Thank you for your interest. We will notify you when we are ready to launch."
SecureOkBody ==
  <<"T","h","a","n","k"," ","y","o","u"," ","f","o","r"," ","y","o","u","r"," ","i","n",
    "t","e","r","e","s","t","."," ","W","e"," ","w","i","l","l"," ","n","o","t","i","f",
    "y"," ","y","o","u"," ","w","h","e","n"," ","w","e"," ","a","r","e"," ","r","e","a",
    "d","y"," ","t","o"," ","l","a","u","n","c","h",".">>

\* "Internal error during URL parsing: "
ErrorLogHead ==
  <<"I","n","t","e","r","n","a","l"," ","e","r","r","o","r"," ","d","u","r","i","n","g",
    " ","U","R","L"," ","p","a","r","s","i","n","g",":"," ">>

\* ". URL was: "
ErrorLogMid ==
  <<"."," ","U","R","L"," ","w","a","s",":"," ">>

\* "Oops! Something went wrong. Please try again later."
GenericErrorBody ==
  <<"O","o","p","s","!"," ","S","o","m","e","t","h","i","n","g"," ","w","e","n","t"," ",
    "w","r","o","n","g","."," ","P","l","e","a","s","e"," ","t","r","y"," ","a","g","a",
    "i","n"," ","l","a","t","e","r",".">>

\* "empty host"
EmptyHostText ==
  <<"e","m","p","t","y"," ","h","o","s","t">>

\* "invalid international domain name"
IdnaErrorText ==
  <<"i","n","v","a","l","i","d"," ","i","n","t","e","r","n","a","t","i","o","n","a","l",
    " ","d","o","m","a","i","n"," ","n","a","m","e">>

\* "invalid port number"
InvalidPortText ==
  <<"i","n","v","a","l","i","d"," ","p","o","r","t"," ","n","u","m","b","e","r">>

\* "invalid IPv4 address"
InvalidIpv4AddressText ==
  <<"i","n","v","a","l","i","d"," ","I","P","v","4"," ","a","d","d","r","e","s","s">>

(***************************************************************************)
(* Option<T> and string helpers.                                           *)
(***************************************************************************)
None == <<>>
Some(v) == <<v>>
IsSome(o) == Len(o) = 1
Unwrap(o) == o[1]

\* index of the first element of s that is in set, Len(s) + 1 when there is none
FirstIn(s, set) ==
  IF \E i \in 1..Len(s) : s[i] \in set
  THEN CHOOSE i \in 1..Len(s) : s[i] \in set /\ \A j \in 1..(i - 1) : s[j] \notin set
  ELSE Len(s) + 1

\* index of the last occurrence of c in s, 0 when there is none
LastOf(s, c) ==
  IF \E i \in 1..Len(s) : s[i] = c
  THEN CHOOSE i \in 1..Len(s) : s[i] = c /\ \A j \in (i + 1)..Len(s) : s[j] # c
  ELSE 0

\* t occurs in s as a contiguous substring
Contains(s, t) ==
  \E i \in 0..(Len(s) - Len(t)) : SubSeq(s, i + 1, i + Len(t)) = t

\* the '.'-separated parts of s, as str::split('.') yields them
RECURSIVE SplitDot(_)
SplitDot(s) ==
  LET i == FirstIn(s, {"."})
  IN IF i > Len(s) THEN <<s>>
     ELSE <<SubSeq(s, 1, i - 1)>> \o SplitDot(SubSeq(s, i + 1, Len(s)))

(***************************************************************************)
(* reqwest::Url::parse on the candidate string of the handlers, which      *)
(* always starts with "https:" (a special, non-file scheme).  The model    *)
(* follows the url crate's parser: tab and newline are removed, every      *)
(* leading '/' and '\' after the scheme is skipped, the authority runs to  *)
(* the first '/', '\', '?' or '#', the userinfo ends at its last '@', the  *)
(* host ends at the first ':' and the rest is the port.  Path, query and   *)
(* fragment never fail.  Inputs are ASCII without '[', '%' and "xn--"      *)
(* labels, and numeric host labels are short enough not to overflow u32.   *)
(* The trimming of leading and trailing spaces and controls removes        *)
(* nothing: the candidate starts with 'h' and no explored email ends in    *)
(* one.  A forbidden host code point is reported as IdnaError, as the url  *)
(* crate does since 2.5.4 (InvalidDomainCharacter before); no property     *)
(* below depends on which of the two texts is produced.                    *)
(***************************************************************************)
Ok == <<"Ok">>
Err(e) == <<"Err", e>>
IsOk(res) == res[1] = "Ok"

Terminators == {"/", "\\", "?", "#"}
IgnoredChars == {"\t", "\n", "\r"}
ForbiddenHostCodePoints ==
  {" ", "#", "/", ":", "<", ">", "?", "@", "[", "\\", "]", "^", "|", "%"}
DecDigits == {"0", "1", "2", "3", "4", "5", "6", "7", "8", "9"}
OctDigits == {"0", "1", "2", "3", "4", "5", "6", "7"}
HexDigits == DecDigits \cup {"a", "b", "c", "d", "e", "f", "A", "B", "C", "D", "E", "F"}

DigitValue(c) ==
  CASE c = "0" -> 0 [] c = "1" -> 1 [] c = "2" -> 2 [] c = "3" -> 3 [] c = "4" -> 4
    [] c = "5" -> 5 [] c = "6" -> 6 [] c = "7" -> 7 [] c = "8" -> 8 [] c = "9" -> 9
    [] c \in {"a", "A"} -> 10 [] c \in {"b", "B"} -> 11 [] c \in {"c", "C"} -> 12
    [] c \in {"d", "D"} -> 13 [] c \in {"e", "E"} -> 14 [] c \in {"f", "F"} -> 15

\* u32::from_str_radix(digits, r)
RECURSIVE FromStrRadix(_, _)
FromStrRadix(digits, r) ==
  IF digits = <<>> THEN 0
  ELSE FromStrRadix(SubSeq(digits, 1, Len(digits) - 1), r) * r
         + DigitValue(digits[Len(digits)])

\* Display of url::ParseError
ParseErrorText(e) ==
  CASE e = "EmptyHost" -> EmptyHostText
    [] e = "IdnaError" -> IdnaErrorText
    [] e = "InvalidPort" -> InvalidPortText
    [] e = "InvalidIpv4Address" -> InvalidIpv4AddressText

StripIgnored(s) == SelectSeq(s, LAMBDA c : c \notin IgnoredChars)

\* s without its leading '/' and '\'
RECURSIVE SkipSlashes(_)
SkipSlashes(s) ==
  IF s # <<>> /\ s[1] \in {"/", "\\"} THEN SkipSlashes(Tail(s)) ELSE s

\* the prefix of s before its first element in set
TakeUntil(s, set) == SubSeq(s, 1, FirstIn(s, set) - 1)

\* url::parser::parse_ipv4number: Err, or Ok with the number
parse_ipv4number(input) ==
  IF input = <<>> THEN Err("()")
  ELSE LET hex == Len(input) >= 2 /\ input[1] = "0" /\ input[2] \in {"x", "X"}
           oct == ~hex /\ Len(input) >= 2 /\ input[1] = "0"
           r == IF hex THEN 16 ELSE IF oct THEN 8 ELSE 10
           digits == IF hex THEN SubSeq(input, 3, Len(input))
                     ELSE IF oct THEN Tail(input) ELSE input
           valid == IF hex THEN HexDigits ELSE IF oct THEN OctDigits ELSE DecDigits
       IN IF digits = <<>> THEN <<"Ok", 0>>
          ELSE IF \E i \in 1..Len(digits) : digits[i] \notin valid THEN Err("()")
          ELSE <<"Ok", FromStrRadix(digits, r)>>

\* url::host::ends_in_a_number
ends_in_a_number(domain) ==
  LET parts == SplitDot(domain)
      n == Len(parts)
      last == IF parts[n] = <<>> /\ n > 1 THEN parts[n - 1] ELSE parts[n]
  IN IF parts[n] = <<>> /\ n = 1 THEN FALSE
     ELSE \/ last # <<>> /\ \A i \in 1..Len(last) : last[i] \in DecDigits
          \/ IsOk(parse_ipv4number(last))

\* url::host::parse_ipv4addr
parse_ipv4addr(domain) ==
  LET split == SplitDot(domain)
      parts == IF split[Len(split)] = <<>> THEN SubSeq(split, 1, Len(split) - 1)
               ELSE split
      numbers == [i \in 1..Len(parts) |-> parse_ipv4number(parts[i])]
      n == Len(parts)
  IN IF n > 4 THEN Err("InvalidIpv4Address")
     ELSE IF \E i \in 1..n : ~IsOk(numbers[i]) THEN Err("InvalidIpv4Address")
     ELSE IF n = 4 /\ numbers[n][2] > 255 THEN Err("InvalidIpv4Address")
     ELSE IF n = 3 /\ numbers[n][2] > 65535 THEN Err("InvalidIpv4Address")
     ELSE IF n = 2 /\ numbers[n][2] > 16777215 THEN Err("InvalidIpv4Address")
     ELSE IF \E i \in 1..(n - 1) : numbers[i][2] > 255 THEN Err("InvalidIpv4Address")
     ELSE Ok

\* url::Host::parse on a host that does not start with '['
HostParse(host_str) ==
  IF \E i \in 1..Len(host_str) : host_str[i] \in ForbiddenHostCodePoints
  THEN Err("IdnaError")
  ELSE IF ends_in_a_number(host_str) THEN parse_ipv4addr(host_str)
  ELSE Ok

\* url::parser::parse_port on the text after the host's ':'
RECURSIVE parse_port(_, _)
parse_port(input, port) ==
  IF input = <<>> THEN Ok
  ELSE IF input[1] \notin DecDigits THEN Err("InvalidPort")
  ELSE IF port * 10 + DigitValue(input[1]) > 65535 THEN Err("InvalidPort")
  ELSE parse_port(Tail(input), port * 10 + DigitValue(input[1]))

\* reqwest::Url::parse(&backend_url_str)
UrlParse(input) ==
  LET s == StripIgnored(input)
      rest == SkipSlashes(SubSeq(s, Len(UrlScheme) + 1, Len(s)))
      authority == TakeUntil(rest, Terminators)
      hostport == SubSeq(authority, LastOf(authority, "@") + 1, Len(authority))
      host_str == TakeUntil(hostport, {":"})
      port_str == SubSeq(hostport, Len(host_str) + 2, Len(hostport))
      host == HostParse(host_str)
  IN IF host_str = <<>> THEN Err("EmptyHost")
     ELSE IF ~IsOk(host) THEN host
     ELSE parse_port(port_str, 0)

(***************************************************************************)
(* Formatting done by the handlers.                                        *)
(***************************************************************************)
\* format!("https://{}/v1/waitlist?api_key={}&email={}", host, api_key, email)
BackendUrl(host, api_key, email) ==
  UrlScheme \o UrlSlashes \o host \o UrlPathAndKey \o api_key \o UrlEmail \o email

\* format!("Failed to construct backend request. URL: '{}', Error: {}", url, e)
ErrorMessage(backend_url_str, e) ==
  ErrorMessageHead \o backend_url_str \o ErrorMessageMid \o ParseErrorText(e)

\* <str as Debug>::fmt: quoted, with '"', '\' and tab escaped
RECURSIVE EscapeDebug(_)
EscapeDebug(s) ==
  IF s = <<>> THEN <<>>
  ELSE (CASE s[1] = "\"" -> <<"\\", "\"">>
          [] s[1] = "\\" -> <<"\\", "\\">>
          [] s[1] = "\t" -> <<"\\", "t">>
          [] OTHER -> <<s[1]>>) \o EscapeDebug(Tail(s))

\* <Option<&str> as Debug>::fmt
DebugOption(o) ==
  IF IsSome(o)
  THEN DebugSomeOpen \o <<"\"">> \o EscapeDebug(Unwrap(o)) \o <<"\"">> \o DebugSomeClose
  ELSE DebugNone

\* HeaderValue::to_str(): Ok only when every byte is visible ASCII or tab
ObsText == "0xE9"
to_str(h) == IF \E i \in 1..Len(h) : h[i] = ObsText THEN None ELSE Some(h)

\* req.headers().get("host").and_then(|h| h.to_str().ok())
HostHeader(headers_host) ==
  IF IsSome(headers_host) THEN to_str(Unwrap(headers_host)) ELSE None

\* Option::unwrap_or
UnwrapOr(o, default) == IF IsSome(o) THEN Unwrap(o) ELSE default

\* Vec::contains
VecContains(vec, x) == \E i \in 1..Len(vec) : vec[i] = x

\* faulty variant of HostAllowed: compares the hosts with their ports stripped
HostAllowedIgnoringPort(o, allowed_hosts) ==
  /\ IsSome(o)
  /\ \E i \in 1..Len(allowed_hosts) :
       TakeUntil(allowed_hosts[i], {":"}) = TakeUntil(Unwrap(o), {":"})

\* the guard of the first match arm of secure_waitlist
HostAllowed(o, allowed_hosts) == IsSome(o) /\ VecContains(allowed_hosts, Unwrap(o))

HttpResponse(status, body) == [status |-> status, body |-> body]

\* faulty variant of error_response: a fixed body instead of the message
error_response_generic(message) == HttpResponse(500, GenericErrorBody)

\* <ApiError as ResponseError>::error_response
error_response(message) == HttpResponse(500, message)

\* faulty variant of VulnerableOk: the confirmation text of the other handler
VulnerableOkSwapped == HttpResponse(200, SecureOkBody)

\* the Ok arm of the match in vulnerable_waitlist
VulnerableOk == HttpResponse(200, VulnerableOkBody)
\* the rejection of secure_waitlist
SecureRejected == HttpResponse(400, RejectBody)
\* the Ok arm of the match in secure_waitlist
SecureOk == HttpResponse(200, SecureOkBody)
\* the Err arm of the match in secure_waitlist
SecureError == HttpResponse(500, GenericErrorBody)

\* the AppState built by main
AppState ==
  [api_key |-> ApiKey, allowed_hosts |-> <<MyApp, ProdMyApp, Loopback>>]

(***************************************************************************)
(* The handlers take the configuration as a parameter (web::Data<AppState>) *)
(* and never look at how main filled it.  Every allowed host of main       *)
(* parses as a URL authority, so under main's AppState the Err arm of      *)
(* secure_waitlist is never entered; the handlers are therefore explored   *)
(* under main's AppState and under two other values of allowed_hosts: an   *)
(* empty allowlist, and main's allowlist with two entries that do not      *)
(* parse (a non-numeric port, a space in the host).                        *)
(***************************************************************************)
\* "localhost:http": url::ParseError::InvalidPort
LocalhostHttp ==
  <<"l","o","c","a","l","h","o","s","t",":","h","t","t","p">>

\* "my app.com:8080": url::ParseError::IdnaError
MyAppSpace ==
  <<"m","y"," ","a","p","p",".","c","o","m",":","8","0","8","0">>


Configurations ==
  { AppState,
    [AppState EXCEPT !.allowed_hosts = <<>>],
    [AppState EXCEPT !.allowed_hosts = @ \o <<LocalhostHttp, MyAppSpace>>] }

(***************************************************************************)
(* Inputs.                                                                 *)
(***************************************************************************)
RECURSIVE SeqsUpTo(_, _)
SeqsUpTo(alphabet, n) ==
  IF n = 0 THEN {<<>>}
  ELSE LET shorter == SeqsUpTo(alphabet, n - 1)
       IN shorter \cup {Append(s, c) : s \in shorter, c \in alphabet}

HostAlphabet == {"a", ".", ":", "8", "@", "/", "<", ObsText}
EmailAlphabet == {"a", "#"}

\* Host header values chosen for the cases of the allowlist and of the parser
ExampleHosts ==
  { MyApp, ProdMyApp, Loopback,
    <<"m","y","-","a","p","p",".","c","o","m">>,
    <<"M","Y","-","A","P","P",".","C","O","M",":","8","0","8","0">>,
    <<"e","v","i","l",".","c","o","m">>,
    LocalhostHttp, MyAppSpace,
    <<"a","\t","b">>,
    <<"a","\"","b">>,
    <<"2","5","6",".","0",".","0",".","1">>,
    <<"1",".","2",".","3",".","4",".","5">>,
    <<"0","x","7","f",".","1">>,
    <<"a",":","8","8","8","8","8">> }

Endpoints == {"vulnerable", "secure"}

NewRequest(endpoint, headers_host, email) ==
  [endpoint |-> endpoint, headers_host |-> headers_host, email |-> email]

NoRequest == NewRequest("none", None, <<>>)

\* the requests explored one at a time
AllRequests ==
  { NewRequest(ep, h, m) :
      ep \in Endpoints,
      h \in {None} \cup {Some(v) : v \in SeqsUpTo(HostAlphabet, MaxHostLen) \cup ExampleHosts},
      m \in SeqsUpTo(EmailAlphabet, MaxEmailLen) }

\* the requests explored in flight together
ConcurrentRequests ==
  { NewRequest(ep, h, <<"a","@","b">>) :
      ep \in Endpoints,
      h \in {None, Some(MyApp), Some(Loopback), Some(<<"e","v","i","l">>),
             Some(LocalhostHttp)} }

(***************************************************************************)
(* State.                                                                  *)
(***************************************************************************)
VARIABLES
  state,            \* web::Data<AppState>, shared by every handler
  log,              \* the records written through the log macros, in order
  request,          \* per request: endpoint, Host header, email
  pc,               \* per request: the handler's position
  host_header,      \* per request: secure_waitlist's host_header
  host,             \* per request: the handler's host
  backend_url_str,  \* per request: the candidate URL
  e,                \* per request: the parse error of the Err arm
  response          \* per request: the response sent to the client

vars == <<state, log, request, pc, host_header, host, backend_url_str, e, response>>

Requests == 1..MaxRequests

Record(level, text, r) == [level |-> level, text |-> text, req |-> r]

Init ==
  /\ state \in Configurations
  /\ log = <<>>
  /\ request = [r \in Requests |-> NoRequest]
  /\ pc = [r \in Requests |-> "idle"]
  /\ host_header = [r \in Requests |-> None]
  /\ host = [r \in Requests |-> <<>>]
  /\ backend_url_str = [r \in Requests |-> <<>>]
  /\ e = [r \in Requests |-> None]
  /\ response = [r \in Requests |-> None]

\* the server dispatches a request to the handler of its route
Dispatch(r, requests) ==
  /\ pc[r] = "idle"
  /\ \A q \in 1..(r - 1) : pc[q] # "idle"
  /\ \E q \in requests :
       /\ request' = [request EXCEPT ![r] = q]
       /\ pc' = [pc EXCEPT ![r] = IF q.endpoint = "vulnerable" THEN "v_host" ELSE "s_host"]
  /\ UNCHANGED <<state, log, host_header, host, backend_url_str, e, response>>

(***************************************************************************)
(* vulnerable_waitlist                                                     *)
(***************************************************************************)
\* faulty variant of VulnerableHost: consults the allowlist and rejects
VulnerableHostChecked(r) ==
  /\ pc[r] = "v_host"
  /\ LET o == HostHeader(request[r].headers_host)
     IN IF HostAllowed(o, state.allowed_hosts)
        THEN /\ host' = [host EXCEPT ![r] = Unwrap(o)]
             /\ pc' = [pc EXCEPT ![r] = "v_url"]
             /\ response' = response
        ELSE /\ host' = host
             /\ pc' = [pc EXCEPT ![r] = "done"]
             /\ response' = [response EXCEPT ![r] = Some(SecureRejected)]
  /\ UNCHANGED <<state, log, request, host_header, backend_url_str, e>>

\* 1. let host = ...unwrap_or("")
VulnerableHost(r) ==
  /\ pc[r] = "v_host"
  /\ host' = [host EXCEPT ![r] = UnwrapOr(HostHeader(request[r].headers_host), <<>>)]
  /\ pc' = [pc EXCEPT ![r] = "v_url"]
  /\ UNCHANGED <<state, log, request, host_header, backend_url_str, e, response>>

\* faulty variant of VulnerableUrl: the URL is kept in one buffer shared by all requests
VulnerableUrlShared(r) ==
  /\ pc[r] = "v_url"
  /\ LET url == BackendUrl(host[r], state.api_key, request[r].email)
     IN /\ backend_url_str' = [q \in Requests |-> url]
        /\ log' = Append(log, Record("info", VulnerableInfoText \o url, r))
  /\ pc' = [pc EXCEPT ![r] = "v_parse"]
  /\ UNCHANGED <<state, request, host_header, host, e, response>>

\* 2. format! the backend URL and log it at info level
VulnerableUrl(r) ==
  /\ pc[r] = "v_url"
  /\ LET url == BackendUrl(host[r], state.api_key, request[r].email)
     IN /\ backend_url_str' = [backend_url_str EXCEPT ![r] = url]
        /\ log' = Append(log, Record("info", VulnerableInfoText \o url, r))
  /\ pc' = [pc EXCEPT ![r] = "v_parse"]
  /\ UNCHANGED <<state, request, host_header, host, e, response>>

\* 3. match reqwest::Url::parse: Ok responds, Err returns ApiError to the framework
VulnerableParse(r) ==
  /\ pc[r] = "v_parse"
  /\ LET res == UrlParse(backend_url_str[r])
     IN IF IsOk(res)
        THEN /\ response' = [response EXCEPT ![r] = Some(VulnerableOk)]
             /\ pc' = [pc EXCEPT ![r] = "done"]
             /\ e' = e
        ELSE /\ e' = [e EXCEPT ![r] = Some(res[2])]
             /\ pc' = [pc EXCEPT ![r] = "v_error"]
             /\ response' = response
  /\ UNCHANGED <<state, log, request, host_header, host, backend_url_str>>

\* the framework turns the returned ApiError into the response
VulnerableError(r) ==
  /\ pc[r] = "v_error"
  /\ response' = [response EXCEPT ![r] =
                    Some(error_response(ErrorMessage(backend_url_str[r], Unwrap(e[r]))))]
  /\ pc' = [pc EXCEPT ![r] = "done"]
  /\ UNCHANGED <<state, log, request, host_header, host, backend_url_str, e>>

vulnerable_waitlist(r) ==
  \/ VulnerableHost(r)
  \/ VulnerableUrl(r)
  \/ VulnerableParse(r)
  \/ VulnerableError(r)

(***************************************************************************)
(* secure_waitlist                                                         *)
(***************************************************************************)
\* 1. let host_header = ...
SecureHostHeader(r) ==
  /\ pc[r] = "s_host"
  /\ host_header' = [host_header EXCEPT ![r] = HostHeader(request[r].headers_host)]
  /\ pc' = [pc EXCEPT ![r] = "s_check"]
  /\ UNCHANGED <<state, log, request, host, backend_url_str, e, response>>

\* faulty variant of SecureCheck: a rejected host is added to the allowlist
SecureCheckLearns(r) ==
  /\ pc[r] = "s_check"
  /\ IF HostAllowed(host_header[r], state.allowed_hosts)
     THEN /\ pc' = [pc EXCEPT ![r] = "s_unwrap"]
          /\ UNCHANGED <<state, log, response>>
     ELSE /\ log' = Append(log, Record("warn", WarnText \o DebugOption(host_header[r]), r))
          /\ response' = [response EXCEPT ![r] = Some(SecureRejected)]
          /\ pc' = [pc EXCEPT ![r] = "done"]
          /\ state' = IF IsSome(host_header[r])
                      THEN [state EXCEPT !.allowed_hosts = Append(@, Unwrap(host_header[r]))]
                      ELSE state
  /\ UNCHANGED <<request, host_header, host, backend_url_str, e>>

\* faulty variant of SecureCheck: the rejection arm does not return
SecureCheckFallsThrough(r) ==
  /\ pc[r] = "s_check"
  /\ IF HostAllowed(host_header[r], state.allowed_hosts)
     THEN UNCHANGED <<log, response>>
     ELSE /\ log' = Append(log, Record("warn", WarnText \o DebugOption(host_header[r]), r))
          /\ response' = [response EXCEPT ![r] = Some(SecureRejected)]
  /\ pc' = [pc EXCEPT ![r] = "s_unwrap"]
  /\ UNCHANGED <<state, request, host_header, host, backend_url_str, e>>

\* 2. match host_header: proceed, or warn and return 400
SecureCheck(r) ==
  /\ pc[r] = "s_check"
  /\ IF HostAllowed(host_header[r], state.allowed_hosts)
     THEN /\ pc' = [pc EXCEPT ![r] = "s_unwrap"]
          /\ UNCHANGED <<log, response>>
     ELSE /\ log' = Append(log, Record("warn", WarnText \o DebugOption(host_header[r]), r))
          /\ response' = [response EXCEPT ![r] = Some(SecureRejected)]
          /\ pc' = [pc EXCEPT ![r] = "done"]
  /\ UNCHANGED <<state, request, host_header, host, backend_url_str, e>>

\* let host = host_header.unwrap(): panics on None
SecureUnwrap(r) ==
  /\ pc[r] = "s_unwrap"
  /\ IF IsSome(host_header[r])
     THEN /\ host' = [host EXCEPT ![r] = Unwrap(host_header[r])]
          /\ pc' = [pc EXCEPT ![r] = "s_url"]
     ELSE /\ host' = host
          /\ pc' = [pc EXCEPT ![r] = "panicked"]
  /\ UNCHANGED <<state, log, request, host_header, backend_url_str, e, response>>

\* 3. format! the backend URL and log it at info level
SecureUrl(r) ==
  /\ pc[r] = "s_url"
  /\ LET url == BackendUrl(host[r], state.api_key, request[r].email)
     IN /\ backend_url_str' = [backend_url_str EXCEPT ![r] = url]
        /\ log' = Append(log, Record("info", SecureInfoText \o url, r))
  /\ pc' = [pc EXCEPT ![r] = "s_parse"]
  /\ UNCHANGED <<state, request, host_header, host, e, response>>

\* 4. match reqwest::Url::parse: the Ok arm responds, the Err arm is entered
SecureParse(r) ==
  /\ pc[r] = "s_parse"
  /\ LET res == UrlParse(backend_url_str[r])
     IN IF IsOk(res)
        THEN /\ response' = [response EXCEPT ![r] = Some(SecureOk)]
             /\ pc' = [pc EXCEPT ![r] = "done"]
             /\ e' = e
        ELSE /\ e' = [e EXCEPT ![r] = Some(res[2])]
             /\ pc' = [pc EXCEPT ![r] = "s_error"]
             /\ response' = response
  /\ UNCHANGED <<state, log, request, host_header, host, backend_url_str>>

\* faulty variant of SecureErr: the failure detail is the response body
SecureErrLeaks(r) ==
  /\ pc[r] = "s_error"
  /\ log' = Append(log, Record("error",
              ErrorLogHead \o ParseErrorText(Unwrap(e[r])) \o ErrorLogMid
                \o backend_url_str[r], r))
  /\ response' = [response EXCEPT ![r] =
                    Some(HttpResponse(500, ErrorMessage(backend_url_str[r], Unwrap(e[r]))))]
  /\ pc' = [pc EXCEPT ![r] = "done"]
  /\ UNCHANGED <<state, request, host_header, host, backend_url_str, e>>

\* faulty variant of SecureErr: the failure is not logged
SecureErrSilent(r) ==
  /\ pc[r] = "s_error"
  /\ response' = [response EXCEPT ![r] = Some(SecureError)]
  /\ pc' = [pc EXCEPT ![r] = "done"]
  /\ UNCHANGED <<state, log, request, host_header, host, backend_url_str, e>>

\* the Err arm: log the detail at error level, respond with the generic body
SecureErr(r) ==
  /\ pc[r] = "s_error"
  /\ log' = Append(log, Record("error",
              ErrorLogHead \o ParseErrorText(Unwrap(e[r])) \o ErrorLogMid
                \o backend_url_str[r], r))
  /\ response' = [response EXCEPT ![r] = Some(SecureError)]
  /\ pc' = [pc EXCEPT ![r] = "done"]
  /\ UNCHANGED <<state, request, host_header, host, backend_url_str, e>>

secure_waitlist(r) ==
  \/ SecureHostHeader(r)
  \/ SecureCheck(r)
  \/ SecureUnwrap(r)
  \/ SecureUrl(r)
  \/ SecureParse(r)
  \/ SecureErr(r)

(***************************************************************************)
(* Specifications.                                                         *)
(***************************************************************************)
\* up to MaxRequests requests handled concurrently, their steps interleaved
Next ==
  \E r \in Requests :
    \/ Dispatch(r, ConcurrentRequests)
    \/ vulnerable_waitlist(r)
    \/ secure_waitlist(r)

Spec == Init /\ [][Next]_vars

\* one request, drawn from every enumerated input
NextRequest ==
  \/ Dispatch(1, AllRequests)
  \/ vulnerable_waitlist(1)
  \/ secure_waitlist(1)

SpecRequest == Init /\ [][NextRequest]_vars

(***************************************************************************)
(* Vocabulary of the properties, in terms of the request and the           *)
(* configuration only.                                                     *)
(***************************************************************************)
Done(r) == pc[r] = "done"
Status(r) == Unwrap(response[r]).status
Body(r) == Unwrap(response[r]).body
IsVulnerable(r) == request[r].endpoint = "vulnerable"
IsSecure(r) == request[r].endpoint = "secure"

\* the header is present and all of its bytes are visible ASCII
HeaderIsText(r) ==
  /\ IsSome(request[r].headers_host)
  /\ \A i \in 1..Len(Unwrap(request[r].headers_host)) :
       Unwrap(request[r].headers_host)[i] # ObsText

\* the host the handlers read from the request
ClaimedHost(r) == IF HeaderIsText(r) THEN Unwrap(request[r].headers_host) ELSE <<>>

\* the Host header is present and equal to a member of allowed_hosts
InAllowlist(r) ==
  /\ IsSome(request[r].headers_host)
  /\ Unwrap(request[r].headers_host) \in
       {state.allowed_hosts[i] : i \in 1..Len(state.allowed_hosts)}

\* the candidate backend URL of the request
CandidateUrl(r) ==
  UrlScheme \o UrlSlashes \o ClaimedHost(r) \o UrlPathAndKey \o state.api_key
    \o UrlEmail \o request[r].email

ConstructionFails(r) == ~IsOk(UrlParse(CandidateUrl(r)))

\* the log records written for request r
LogOf(r) == SelectSeq(log, LAMBDA rec : rec.req = r)

SecureBodies == {RejectBody, SecureOkBody, GenericErrorBody}

(***************************************************************************)
(* Properties.                                                             *)
(***************************************************************************)

\* C1: whatever the Host header, the email and the outcome of URL parsing, a
\* response of secure_waitlist has one of the three fixed bodies, and the body
\* contains neither the api_key nor the candidate backend URL.
C1_SecureResponseNeverLeaks ==
  \A r \in Requests :
    (IsSecure(r) /\ IsSome(response[r])) =>
      /\ Body(r) \in SecureBodies
      /\ ~Contains(Body(r), state.api_key)
      /\ ~Contains(Body(r), CandidateUrl(r))

\* C1 case: secure_waitlist answered a request whose URL did not parse
C1_Witness ==
  \E r \in Requests :
    IsSecure(r) /\ Done(r) /\ ConstructionFails(r) /\ Status(r) = 500

\* C2: secure_waitlist goes on to URL construction exactly when the Host header
\* is present and equal to a member of allowed_hosts; any other request, a
\* missing header included, ends with status 400 and the fixed rejection body,
\* never with a 5xx status, and without a URL having been built.
C2_SecureAcceptsIffAllowlisted ==
  \A r \in Requests :
    (IsSecure(r) /\ pc[r] \notin {"idle", "s_host", "s_check"}) =>
      IF InAllowlist(r)
      THEN \/ pc[r] \in {"s_unwrap", "s_url", "s_parse", "s_error"}
           \/ Done(r) /\ Status(r) \in {200, 500} /\ backend_url_str[r] # <<>>
      ELSE /\ Done(r)
           /\ response[r] = Some(HttpResponse(400, RejectBody))
           /\ backend_url_str[r] = <<>>

\* C2 case: a request without Host header was rejected with 400
C2_Witness ==
  \E r \in Requests :
    /\ IsSecure(r) /\ Done(r)
    /\ request[r].headers_host = None
    /\ Status(r) = 400

\* C3: when the URL of a request to vulnerable_waitlist does not parse, the
\* response has status 500 and its body is the failure detail, which contains
\* the candidate URL and so the api_key.
C3_VulnerableFailureLeaks ==
  \A r \in Requests :
    (IsVulnerable(r) /\ Done(r) /\ ConstructionFails(r)) =>
      /\ Status(r) = 500
      /\ Body(r) = ErrorMessageHead \o CandidateUrl(r) \o ErrorMessageMid
                     \o ParseErrorText(UrlParse(CandidateUrl(r))[2])
      /\ Contains(Body(r), CandidateUrl(r))
      /\ Contains(Body(r), state.api_key)

\* C3 case: vulnerable_waitlist answered a request whose URL did not parse
C3_Witness ==
  \E r \in Requests :
    IsVulnerable(r) /\ Done(r) /\ ConstructionFails(r) /\ IsSome(request[r].headers_host)

\* what vulnerable_waitlist answers, from the request and the api_key alone
VulnerableExpected(r) ==
  IF ConstructionFails(r)
  THEN HttpResponse(500, ErrorMessageHead \o CandidateUrl(r) \o ErrorMessageMid
                           \o ParseErrorText(UrlParse(CandidateUrl(r))[2]))
  ELSE HttpResponse(200, VulnerableOkBody)

\* C4 as stated: vulnerable_waitlist builds the URL from the Host header value,
\* whatever it is, and from the empty string when the header is absent.
C4_VulnerableUsesEveryHeaderValue ==
  \A r \in Requests :
    (IsVulnerable(r) /\ pc[r] \notin {"idle", "v_host"}) =>
      host[r] = UnwrapOr(request[r].headers_host, <<>>)

\* C4 amended: vulnerable_waitlist always accepts. It builds the URL from the
\* Host header value when the header is present and visible ASCII, and from the
\* empty string when the header is absent or is not; it never answers 400, and
\* its response is determined by the request and the api_key, whatever
\* allowed_hosts holds.
C4_VulnerableAlwaysAccepts ==
  \A r \in Requests :
    (IsVulnerable(r) /\ pc[r] \notin {"idle", "v_host"}) =>
      /\ host[r] = ClaimedHost(r)
      /\ pc[r] \in {"v_url", "v_parse", "v_error", "done"}
      /\ pc[r] # "v_url" => backend_url_str[r] = CandidateUrl(r)
      /\ IsSome(response[r]) => Status(r) # 400
      /\ Done(r) => response[r] = Some(VulnerableExpected(r))

\* C4 case: a request whose host is not in allowed_hosts was answered 200
C4_Witness ==
  \E r \in Requests :
    /\ IsVulnerable(r) /\ Done(r)
    /\ HeaderIsText(r) /\ ~InAllowlist(r)
    /\ Status(r) = 200

\* C5: for a Host header that is a member of allowed_hosts and a URL that
\* parses, each handler answers 200 with its own fixed confirmation, and the
\* body contains neither the host nor the api_key.
C5_AllowlistedSuccess ==
  \A r \in Requests :
    (Done(r) /\ InAllowlist(r) /\ ~ConstructionFails(r)) =>
      /\ Status(r) = 200
      /\ Body(r) = IF IsVulnerable(r) THEN VulnerableOkBody ELSE SecureOkBody
      /\ ~Contains(Body(r), ClaimedHost(r))
      /\ ~Contains(Body(r), state.api_key)

\* C5 case: both handlers answered a request with the same allowlisted host
C5_Witness ==
  \E r1, r2 \in Requests :
    /\ IsVulnerable(r1) /\ IsSecure(r2)
    /\ Done(r1) /\ Done(r2)
    /\ InAllowlist(r1) /\ request[r2].headers_host = request[r1].headers_host
    /\ Status(r1) = 200 /\ Status(r2) = 200

\* C6: when secure_waitlist accepted the host and the URL does not parse, the
\* failure detail (parser message and candidate URL) is logged once at error
\* level and the response is 500 with the generic body; secure_waitlist answers
\* 500, and an error-level record is written, in this case only.
C6_SecureFailureIsLoggedNotSent ==
  /\ \A r \in Requests :
       IsSecure(r) =>
         /\ (Done(r) /\ InAllowlist(r) /\ ConstructionFails(r)) =>
              /\ response[r] = Some(HttpResponse(500, GenericErrorBody))
              /\ SelectSeq(LogOf(r), LAMBDA rec : rec.level = "error") =
                   << Record("error",
                        ErrorLogHead \o ParseErrorText(UrlParse(CandidateUrl(r))[2])
                          \o ErrorLogMid \o CandidateUrl(r), r) >>
         /\ (IsSome(response[r]) /\ Status(r) = 500) =>
              InAllowlist(r) /\ ConstructionFails(r)
  /\ \A i \in 1..Len(log) :
       log[i].level = "error" =>
         /\ IsSecure(log[i].req)
         /\ InAllowlist(log[i].req) /\ ConstructionFails(log[i].req)

\* C6 case: an error-level record was written and the request answered
C6_Witness ==
  \E r \in Requests :
    /\ IsSecure(r) /\ Done(r)
    /\ \E i \in 1..Len(log) : log[i].level = "error" /\ log[i].req = r

\* C7: in vulnerable_waitlist a host that makes the URL parse fail aborts the
\* serving thread (the parse is unwrapped), an outcome other than the 500
\* response that carries the failure detail.
C7_InvalidHostPanics ==
  \A r \in Requests :
    (IsVulnerable(r) /\ ConstructionFails(r) /\ pc[r] \notin {"idle", "v_host", "v_url", "v_parse"}) =>
      pc[r] = "panicked" /\ response[r] = None

SecureExpected(r) ==
  IF ~InAllowlist(r) THEN HttpResponse(400, RejectBody)
  ELSE IF ConstructionFails(r) THEN HttpResponse(500, GenericErrorBody)
  ELSE HttpResponse(200, SecureOkBody)

\* C9: under every interleaving of the handlers, no request ends in a panic,
\* and every answered request has the response it gets when handled alone.
C9_RequestsAreIndependent ==
  \A r \in Requests :
    /\ pc[r] # "panicked"
    /\ Done(r) =>
         response[r] = Some(IF IsVulnerable(r) THEN VulnerableExpected(r)
                            ELSE SecureExpected(r))

\* C9 case: a request that failed in secure_waitlist and a request that failed in
\* vulnerable_waitlist were handled interleaved (the record of the second lies
\* between the two records of the first), and both were answered
C9_Witness ==
  \E r1, r2 \in Requests :
    /\ r1 # r2 /\ Done(r1) /\ Done(r2)
    /\ IsSecure(r1) /\ Status(r1) = 500
    /\ IsVulnerable(r2) /\ Status(r2) = 500
    /\ \E i, j, k \in 1..Len(log) :
         i < j /\ j < k /\ log[i].req = r1 /\ log[j].req = r2 /\ log[k].req = r1

\* the steps of a request: START (v_host, s_host), host decision (v_host,
\* s_check), URL construction (v_url, v_parse, s_unwrap, s_url, s_parse),
\* response shaping after a failure (v_error, s_error), DONE
Edges ==
  { <<"idle", "v_host">>, <<"idle", "s_host">>,
    <<"v_host", "v_url">>, <<"v_url", "v_parse">>,
    <<"v_parse", "done">>, <<"v_parse", "v_error">>, <<"v_error", "done">>,
    <<"s_host", "s_check">>, <<"s_check", "done">>, <<"s_check", "s_unwrap">>,
    <<"s_unwrap", "s_url">>, <<"s_url", "s_parse">>,
    <<"s_parse", "done">>, <<"s_parse", "s_error">>, <<"s_error", "done">> }

\* the host value the rejection warning carries
WarnedHost(r) == IF HeaderIsText(r) THEN Some(Unwrap(request[r].headers_host)) ELSE None

=============================================================================
